---- MODULE Spec2Model ----
(***************************************************************************)
(* A model of codeout.CodeOut: an io.StringIO subclass that tracks an      *)
(* indentation level, a cached indentation string and the position         *)
(* counters line / column / offset.                                        *)
(*                                                                         *)
(* Text is a sequence of one-character strings.  The object is one record  *)
(* `self`; its fields carry the names of the attributes in codeout.py.     *)
(* `buf` and `pos` are the state of the io.StringIO base (value, cursor).  *)
(* `written` and `overwritten` are ghost fields: the concatenation of all  *)
(* the text handed to the stream's write, and how many of those characters *)
(* landed on top of characters that were already in the buffer.            *)
(***************************************************************************)
EXTENDS Integers, Sequences, FiniteSets, TLC

VARIABLES self, result, lastCall, mark, script

vars == <<self, result, lastCall, mark, script>>

\* ---------------------------------------------------------------- bounds
MaxLen == 5
MaxLevel == 2

\* ---------------------------------------------------------------- inputs
Tabs == { <<" ", " ">>, <<"\t">> }

Seeds == { <<>>, <<"a", "\n">> }

Texts == { <<>>, <<"a">>, <<"1", "2">>, <<"a", "\n", "a">> }

StrItem(t) == [kind |-> "str", v |-> t]
IntItem(n) == [kind |-> "int", v |-> n]

Items == { StrItem(<<"a">>), IntItem(12), IntItem(0 - 1) }

ItemSeqs == { <<>>, <<StrItem(<<"a">>)>>, <<IntItem(12), StrItem(<<>>)>>,
              <<StrItem(<<"a">>), IntItem(0 - 1)>> }

FormatCalls ==
  { [fmt |-> <<"a", "{}", "\n", "{}">>, args |-> <<StrItem(<<"a">>), IntItem(0 - 1)>>],
    [fmt |-> <<"{{", "{}", "}}">>, args |-> <<IntItem(12), StrItem(<<"a">>)>>],
    [fmt |-> <<"{}", "{}">>, args |-> <<StrItem(<<"a">>)>>] }

\* ------------------------------------------------------ Python built-ins
Min(a, b) == IF a < b THEN a ELSE b

\* str * int: a non-positive count gives the empty string
RECURSIVE Repeat(_, _)
Repeat(s, n) == IF n <= 0 THEN <<>> ELSE s \o Repeat(s, n - 1)

DigitChars == <<"0", "1", "2", "3", "4", "5", "6", "7", "8", "9">>

RECURSIVE Digits(_)
Digits(n) == IF n < 10 THEN <<DigitChars[n + 1]>>
             ELSE Digits(n \div 10) \o <<DigitChars[(n % 10) + 1]>>

\* str(item): a str is itself, an int is its decimal representation
str(item) == IF item.kind = "str" THEN item.v
             ELSE IF item.v < 0 THEN <<"-">> \o Digits(0 - item.v)
             ELSE Digits(item.v)

\* str.format with automatically numbered "{}" fields and the "{{" / "}}"
\* escapes; a field without a positional argument raises IndexError.
RECURSIVE str_format(_, _)
str_format(fmt, args) ==
  IF fmt = <<>> THEN [ok |-> TRUE, text |-> <<>>]
  ELSE LET tok == Head(fmt) IN
       IF tok = "{}"
       THEN IF args = <<>> THEN [ok |-> FALSE, text |-> <<>>]
            ELSE LET r == str_format(Tail(fmt), Tail(args))
                 IN  [ok |-> r.ok, text |-> str(Head(args)) \o r.text]
       ELSE LET r == str_format(Tail(fmt), args)
                lit == IF tok = "{{" THEN "{" ELSE IF tok = "}}" THEN "}" ELSE tok
            IN  [ok |-> r.ok, text |-> <<lit>> \o r.text]

\* io.StringIO.write: put text at the cursor, overwriting what is there and
\* extending the value as needed; the cursor ends after the text.
StringIO_write(s, text) ==
  LET n == Len(s.buf)
      p == s.pos
      k == Len(text)
  IN  [s EXCEPT !.buf = SubSeq(s.buf, 1, p) \o text \o SubSeq(s.buf, p + k + 1, n),
                !.pos = p + k,
                !.written = @ \o text,
                !.overwritten = @ + Min(k, n - p)]

\* io.StringIO.seek(p) for 0 <= p <= len(value); returns the new position
seek(s, p) == [obj |-> [s EXCEPT !.pos = p], ret |-> "int"]

\* ------------------------------------------------------------- CodeOut
_update_indent(s) == [s EXCEPT !._ind = Repeat(s._tab, s._level)]

indent(s) == [obj |-> _update_indent([s EXCEPT !._level = @ + 1]), ret |-> "self"]

\* unindent() that forgets to refresh the cached prefix
unindent_stale(s) ==
  LET s1 == [s EXCEPT !._level = @ - 1]
  IN  IF s1._level >= 0 THEN [obj |-> s1, ret |-> "self"]
      ELSE [obj |-> s1, ret |-> "AssertionError"]

\* the decrement happens before the assertion, so a failed call keeps it
\* (assert statements enabled, as in the default interpreter mode)
unindent(s) ==
  LET s1 == [s EXCEPT !._level = @ - 1]
  IN  IF s1._level >= 0
      THEN [obj |-> _update_indent(s1), ret |-> "self"]
      ELSE [obj |-> s1, ret |-> "AssertionError"]

dedent(s) == unindent(s)

outdent(s) == unindent(s)

\* the loop body without the column reset on a newline
write_char_noreset(s, ch) ==
  IF ch = "\n"
  THEN [s EXCEPT !._line = @ + 1, !._off = @ + 1]
  ELSE [s EXCEPT !._col = @ + 1, !._off = @ + 1]

\* body of the loop of write() for one character
write_char(s, ch) ==
  IF ch = "\n"
  THEN [s EXCEPT !._line = @ + 1, !._col = 0, !._off = @ + 1]
  ELSE [s EXCEPT !._col = @ + 1, !._off = @ + 1]

RECURSIVE write_loop(_, _)
write_loop(s, text) ==
  IF text = <<>> THEN s ELSE write_loop(write_char(s, Head(text)), Tail(text))

\* write() that takes the offset from the stream position
write_offset_from_tell(s, text) ==
  LET o == StringIO_write(write_loop(s, text), text)
  IN  [obj |-> [o EXCEPT !._off = o.pos], ret |-> "self"]

write(s, text) == [obj |-> StringIO_write(write_loop(s, text), text), ret |-> "self"]

\* iwrite() that drops the indentation
iwrite_plain(s, text) == write(s, text)

iwrite(s, text) == write(s, s._ind \o text)

write_indented(s, text) == iwrite(s, text)

\* lwrite() without the special case for an empty line
lwrite_always_indented(s, text) == iwrite(s, text \o <<"\n">>)

lwrite(s, text) ==
  IF text = <<>> THEN write(s, <<"\n">>) ELSE iwrite(s, text \o <<"\n">>)

write_line(s, text) == lwrite(s, text)

newline(s) == lwrite(s, <<>>)

\* no return statement: the call evaluates to None
RECURSIVE writelines(_, _)
writelines(s, seq) ==
  IF seq = <<>> THEN [obj |-> s, ret |-> "None"]
  ELSE writelines(write_line(s, str(Head(seq))).obj, Tail(seq))

format(s, fmt, args) ==
  LET r == str_format(fmt, args)
  IN  IF r.ok THEN write(s, r.text) ELSE [obj |-> s, ret |-> "IndexError"]

\* the tab setter without the refresh of the cached prefix
tab_setter_stale(s, value) == [obj |-> [s EXCEPT !._tab = value], ret |-> "None"]

tab_setter(s, value) == [obj |-> _update_indent([s EXCEPT !._tab = value]), ret |-> "None"]

level_setter(s, value) == [obj |-> _update_indent([s EXCEPT !._level = value]), ret |-> "None"]

__iconcat__(s, rhs) ==
  [obj |-> write(s, IF rhs.kind = "str" THEN rhs.v ELSE str(rhs)).obj, ret |-> "self"]

__iadd__(s, rhs) == __iconcat__(s, rhs)

\* the object right after super().__init__() and the attribute assignments
blank(tab) ==
  [_tab |-> tab, _ind |-> <<>>, _level |-> 0, _line |-> 0, _col |-> 0, _off |-> 0,
   buf |-> <<>>, pos |-> 0, written |-> <<>>, overwritten |-> 0]

\* a constructor that stores the seed without going through write()
__init__unscanned(init, tab) == StringIO_write(blank(tab), init)

__init__(init, tab) == IF init # <<>> THEN write(blank(tab), init).obj ELSE blank(tab)

\* properties
contents(s) == s.buf
level(s) == s._level
indentation(s) == s._ind
line(s) == s._line
column(s) == s._col
offset(s) == s._off

\* ------------------------------------------------------------ the caller
\* One call on the object: the outcome of the method becomes the new state,
\* `result` is what the call returned or raised, `lastCall` names the call
\* and its argument, and `mark` keeps the object as it was before an
\* indent() for as long as the very next call is unindent() or an alias.
UnindentNames == {"unindent", "dedent", "outdent"}

LineNames == {"lwrite", "write_line", "newline"}

WriteNames == {"write", "iwrite", "write_indented", "format", "writelines", "__iadd__"}
                \cup LineNames

Call(op, arg, out) ==
  /\ self' = out.obj
  /\ result' = out.ret
  /\ lastCall' = [op |-> op, arg |-> arg]
  /\ mark' = IF op = "indent" THEN <<self>>
             ELSE IF op \in UnindentNames /\ lastCall.op = "indent" THEN mark
             ELSE <<>>

InBounds(o) ==
  /\ Len(o.written) <= MaxLen
  /\ o._level <= MaxLevel
  /\ o._level >= 0 - 1

Step(op, arg, out) == InBounds(out.obj) /\ Call(op, arg, out) /\ UNCHANGED script

NoScript == [init |-> <<>>, prog |-> <<>>, pc |-> 1]

Constructed(init, tab) ==
  /\ self = __init__(init, tab)
  /\ result = "None"
  /\ lastCall = [op |-> "__init__", arg |-> init]
  /\ mark = <<>>

Init == \E init \in Seeds, tab \in Tabs : Constructed(init, tab) /\ script = NoScript

Indent == Step("indent", <<>>, indent(self))

Unindent == Step("unindent", <<>>, unindent(self))

Dedent == Step("dedent", <<>>, dedent(self))

Outdent == Step("outdent", <<>>, outdent(self))

Write == \E text \in Texts : Step("write", text, write(self, text))

Iwrite == \E text \in Texts : Step("iwrite", text, iwrite(self, text))

WriteIndented == \E text \in Texts : Step("write_indented", text, write_indented(self, text))

Lwrite == \E text \in Texts : Step("lwrite", text, lwrite(self, text))

WriteLine == \E text \in Texts : Step("write_line", text, write_line(self, text))

Newline == Step("newline", <<>>, newline(self))

Writelines == \E seq \in ItemSeqs : Step("writelines", seq, writelines(self, seq))

Format == \E c \in FormatCalls : Step("format", c, format(self, c.fmt, c.args))

Iadd == \E rhs \in Items : Step("__iadd__", rhs, __iadd__(self, rhs))

SetTab == \E value \in Tabs : Step("tab", value, tab_setter(self, value))

SetLevel == \E value \in (0 - 1)..MaxLevel : Step("level", value, level_setter(self, value))

Seek == \E p \in 0..Len(self.buf) : Step("seek", p, seek(self, p))

\* every method and property setter that CodeOut itself defines (append-only use)
Next ==
  \/ Indent \/ Unindent \/ Dedent \/ Outdent
  \/ Write \/ Iwrite \/ WriteIndented \/ Lwrite \/ WriteLine \/ Newline
  \/ Writelines \/ Format \/ Iadd
  \/ SetTab \/ SetLevel

Spec == Init /\ [][Next]_vars

\* writes interleaved with the inherited seek(), as in the last doctest
SeekNext == Write \/ Lwrite \/ Indent \/ Seek

SpecSeek == Init /\ [][SeekNext]_vars

\* ---------------------------------------------------------- the doctest
\* lwrite(a), indent(), lwrite(b), unindent(), lwrite(c) on a new object, as
\* in the first example of the class docstring, for any three lines.
ScenTexts == { <<"<", "f", "o", "o", ">">>,
               <<"<", "b", "a", "r", "/", ">">>,
               <<"<", "/", "f", "o", "o", ">">> }

Example(a, b, c) ==
  << [op |-> "lwrite", arg |-> a], [op |-> "indent", arg |-> <<>>],
     [op |-> "lwrite", arg |-> b], [op |-> "unindent", arg |-> <<>>],
     [op |-> "lwrite", arg |-> c] >>

ScenInit ==
  \E init \in Seeds, tab \in Tabs, a \in ScenTexts, b \in ScenTexts, c \in ScenTexts :
     /\ Constructed(init, tab)
     /\ script = [init |-> init, prog |-> Example(a, b, c), pc |-> 1]

Pending(op) == script.pc <= Len(script.prog) /\ script.prog[script.pc].op = op

Advance == script' = [script EXCEPT !.pc = @ + 1]

ScenLwrite ==
  /\ Pending("lwrite")
  /\ Call("lwrite", script.prog[script.pc].arg, lwrite(self, script.prog[script.pc].arg))
  /\ Advance

ScenIndent == Pending("indent") /\ Call("indent", <<>>, indent(self)) /\ Advance

ScenUnindent == Pending("unindent") /\ Call("unindent", <<>>, unindent(self)) /\ Advance

ScenNext == ScenLwrite \/ ScenIndent \/ ScenUnindent

SpecScenario == ScenInit /\ [][ScenNext]_vars

\* ------------------------------------------------------------ properties
NewlineAt(t) == { i \in DOMAIN t : t[i] = "\n" }

Newlines(t) == Cardinality(NewlineAt(t))

AfterLastNewline(t) ==
  IF NewlineAt(t) = {} THEN Len(t)
  ELSE Len(t) - (CHOOSE i \in NewlineAt(t) : \A j \in NewlineAt(t) : j <= i)

Counters(s) == <<line(s), column(s), offset(s)>>

Reference(t) == <<Newlines(t), AfterLastNewline(t), Len(t)>>

Raised == {"AssertionError", "IndexError"}

TwoSpaces == <<" ", " ">>

\* C1: in every reachable state the level seen through the accessor is >= 0
LevelNeverNegative == level(self) >= 0

\* C2: unindent() (or dedent / outdent) at level 0 and the assignment of a
\* negative value to level both fail with a contract violation, and neither
\* leaves a negative level behind
NegativeLevelRejected ==
  [][ /\ (lastCall'.op \in UnindentNames /\ level(self) = 0)
           => (result' = "AssertionError" /\ level(self') >= 0)
      /\ (lastCall'.op = "level" /\ lastCall'.arg < 0)
           => (result' = "AssertionError" /\ level(self') >= 0) ]_vars

\* C3: every mutating operation that completes returns the buffer itself
MutatingNames == WriteNames \cup UnindentNames \cup {"indent"}

MutatorsReturnSelf ==
  (lastCall.op \in MutatingNames /\ result \notin Raised) => result = "self"

\* C4: after construction and any write-family calls, (line, column, offset)
\* are the number of newlines, the number of characters after the last
\* newline and the length of the cumulative text passed to write
CountersMatchHistory == Counters(self) = Reference(self.written)

CountersMatchHistoryWitness ==
  /\ lastCall.op \in WriteNames
  /\ Newlines(self.written) >= 2
  /\ AfterLastNewline(self.written) >= 1
  /\ column(self) >= 1

\* C5: lwrite / write_line / newline append exactly "\n" for an empty text
\* and exactly unit * level + text + "\n" otherwise
LineText(s, text) ==
  IF text = <<>> THEN <<"\n">> ELSE Repeat(s._tab, s._level) \o text \o <<"\n">>

LineAppended ==
  [][ lastCall'.op \in LineNames
        => contents(self') = contents(self) \o LineText(self, lastCall'.arg) ]_vars

LineAppendedWitness ==
  /\ lastCall = [op |-> "lwrite", arg |-> <<"a">>]
  /\ level(self) = 2
  /\ self._tab = <<"\t">>
  /\ contents(self) = <<"\t", "\t", "a", "\n">>

\* C6: indent() immediately followed by unindent(), from a level >= 0,
\* succeeds and restores level, cached prefix, contents and counters
RoundTrip ==
  (mark # <<>> /\ lastCall.op \in UnindentNames /\ level(mark[1]) >= 0)
     => (result = "self" /\ self = mark[1])

RoundTripWitness ==
  /\ mark # <<>>
  /\ lastCall.op = "unindent"
  /\ level(self) >= 1
  /\ contents(self) # <<>>

\* C7: lwrite(a), indent(), lwrite(b), unindent(), lwrite(c) on a new object
\* gives a and c without prefix and b with one unit; for the doctest's lines
\* and a unit of two spaces: '<foo>\n  <bar/>\n</foo>\n' and (3, 0, 22)
Finished == script.prog # <<>> /\ script.pc > Len(script.prog)

Foo == <<"<", "f", "o", "o", ">">>
Bar == <<"<", "b", "a", "r", "/", ">">>
EndFoo == <<"<", "/", "f", "o", "o", ">">>

IsDoctest ==
  script.init = <<>> /\ script.prog = Example(Foo, Bar, EndFoo) /\ self._tab = TwoSpaces

ExampleOutput ==
  Finished =>
    /\ contents(self) = script.init \o script.prog[1].arg \o <<"\n">>
                          \o self._tab \o script.prog[3].arg \o <<"\n">>
                          \o script.prog[5].arg \o <<"\n">>
    /\ IsDoctest =>
         /\ contents(self) = <<"<", "f", "o", "o", ">", "\n",
                               " ", " ", "<", "b", "a", "r", "/", ">", "\n",
                               "<", "/", "f", "o", "o", ">", "\n">>
         /\ Counters(self) = <<3, 0, 22>>

ExampleOutputWitness == Finished /\ IsDoctest /\ lastCall.op = "lwrite"

\* C8: with seek-and-overwrite the counters still follow the history of the
\* text passed to write, so the offset exceeds the length of the contents by
\* the number of characters that overwrote earlier ones
CountersFollowHistory ==
  /\ Counters(self) = Reference(self.written)
  /\ offset(self) = Len(contents(self)) + self.overwritten

CountersFollowHistoryWitness ==
  /\ lastCall = [op |-> "write", arg |-> <<"a">>]
  /\ self.written = <<"1", "2", "a">>
  /\ contents(self) = <<"a", "2">>
  /\ offset(self) = 3
  /\ offset(self) # Len(contents(self))

\* C9: the cached prefix is always unit * level for the current unit and
\* level, and assigning unit or level changes neither contents nor counters
PrefixIsUnitTimesLevel ==
  /\ [](indentation(self) = Repeat(self._tab, level(self)))
  /\ [][ lastCall'.op \in {"tab", "level"}
           => /\ contents(self') = contents(self)
              /\ Counters(self') = Counters(self) ]_vars

PrefixIsUnitTimesLevelWitness ==
  /\ lastCall = [op |-> "tab", arg |-> <<"\t">>]
  /\ level(self) = 2
  /\ indentation(self) = <<"\t", "\t">>
  /\ contents(self) = <<" ", " ", "a", "\n">>

\* C10: in append-only use the contents are the written text, every call
\* only appends (write appends its argument verbatim), and the counters are
\* the length, newline count and trailing-line length of the contents
AppendOnly ==
  /\ [](/\ contents(self) = self.written
        /\ Counters(self) = Reference(contents(self)))
  /\ [][ /\ SubSeq(contents(self'), 1, Len(contents(self))) = contents(self)
         /\ lastCall'.op = "write"
              => contents(self') = contents(self) \o lastCall'.arg ]_vars

AppendOnlyWitness ==
  /\ lastCall = [op |-> "write", arg |-> <<"a", "\n", "a">>]
  /\ Len(contents(self)) >= 5
  /\ line(self) >= 2
  /\ column(self) = 1

====
